---- MODULE Spec2Model ----
(***************************************************************************)
(* Model of the Aliza support bot (src/eliza_support_bot.py): the chat     *)
(* loop, the response selection of get_response, the keyword classifier,   *)
(* the FAQ resolver, the escalation detector and the ticket store.         *)
(*                                                                         *)
(* Text is modelled as a sequence of one-character strings, so that the    *)
(* code's lower(), upper(), strip(), split(), "in" (substring) and regex   *)
(* search are computed, not assumed.  Canned response texts, which the     *)
(* code never inspects, are TLA+ strings.  The created_at / timestamp      *)
(* fields, which hold the wall clock, are left out of the records.         *)
(***************************************************************************)
EXTENDS Integers, Sequences, FiniteSets, TLC

VARIABLES
  pc,                    \* position of chat_loop (or of the call harness)
  user_name,             \* self.user_name
  conversation_history,  \* self.conversation_history: the "user" field of each entry
  support_tickets,       \* self.support_tickets: the dict, in insertion order
  ticket_counter,        \* self.ticket_counter
  user_input,            \* chat_loop's local user_input (the argument of a call)
  response,              \* chat_loop's local response (the value a call returned)
  ticket_response,       \* chat_loop's local ticket_response
  offers                 \* number of ticket offers printed (line 339)

vars == << pc, user_name, conversation_history, support_tickets,
           ticket_counter, user_input, response, ticket_response, offers >>

---------------------------------------------------------------------------
(* Python string operations on sequences of characters.                    *)

LowerAlpha ==
  <<"a","b","c","d","e","f","g","h","i","j","k","l","m",
    "n","o","p","q","r","s","t","u","v","w","x","y","z">>

UpperAlpha ==
  <<"A","B","C","D","E","F","G","H","I","J","K","L","M",
    "N","O","P","Q","R","S","T","U","V","W","X","Y","Z">>

DigitChars == <<"0","1","2","3","4","5","6","7","8","9">>

Range(s) == { s[i] : i \in DOMAIN s }

Whitespace == {" ", "\t"}

LowerOf == [ c \in Range(UpperAlpha) |->
               LowerAlpha[CHOOSE i \in 1..26 : UpperAlpha[i] = c] ]

UpperOf == [ c \in Range(LowerAlpha) |->
               UpperAlpha[CHOOSE i \in 1..26 : LowerAlpha[i] = c] ]

lower_char(c) == IF c \in DOMAIN LowerOf THEN LowerOf[c] ELSE c

upper_char(c) == IF c \in DOMAIN UpperOf THEN UpperOf[c] ELSE c

\* str.lower()
lower(s) == [ i \in 1..Len(s) |-> lower_char(s[i]) ]

\* str.upper()
upper(s) == [ i \in 1..Len(s) |-> upper_char(s[i]) ]

\* str.isdigit() of one character
isdigit(c) == c \in Range(DigitChars)

isalpha(c) == c \in Range(LowerAlpha) \cup Range(UpperAlpha)

\* str.title(): the first letter of every run of letters in upper case, the
\* others in lower case
title(s) ==
  [ i \in 1..Len(s) |->
      IF i = 1 \/ ~isalpha(s[i-1]) THEN upper_char(s[i]) ELSE lower_char(s[i]) ]

\* Python's  sub in s  on strings
contains(sub, s) ==
  \E i \in 0..(Len(s) - Len(sub)) : SubSeq(s, i + 1, i + Len(sub)) = sub

\* str.strip()
strip(s) ==
  LET keep == { i \in 1..Len(s) : s[i] \notin Whitespace }
  IN  IF keep = {} THEN << >>
      ELSE LET lo == CHOOSE i \in keep : \A j \in keep : i <= j
               hi == CHOOSE i \in keep : \A j \in keep : i >= j
           IN  SubSeq(s, lo, hi)

\* str.split(): the maximal runs of non-whitespace characters, in order
RECURSIVE split(_)
split(s) ==
  IF s = << >> THEN << >>
  ELSE IF Head(s) \in Whitespace THEN split(Tail(s))
  ELSE LET stops == { i \in 1..Len(s) : s[i] \in Whitespace }
           n == IF stops = {} THEN Len(s)
                ELSE (CHOOSE i \in stops : \A j \in stops : i <= j) - 1
       IN  << SubSeq(s, 1, n) >> \o split(SubSeq(s, n + 1, Len(s)))

\* str(n) of a natural number, as in an f-string
RECURSIVE int_to_str(_)
int_to_str(n) ==
  IF n < 10 THEN << DigitChars[n + 1] >>
  ELSE int_to_str(n \div 10) \o << DigitChars[(n % 10) + 1] >>

---------------------------------------------------------------------------
(* The knowledge base built by __init__.  A dict is the sequence of its    *)
(* entries in insertion order, which is the order its iteration follows.   *)

support_knowledge ==
  <<
    [ name |-> "account",
      keywords |-> <<
        <<"a","c","c","o","u","n","t">>,
        <<"l","o","g","i","n">>,
        <<"p","a","s","s","w","o","r","d">>,
        <<"s","i","g","n"," ","u","p">>,
        <<"r","e","g","i","s","t","e","r">>,
        <<"p","r","o","f","i","l","e">> >>,
      responses |-> <<
        "I can help you with account-related issues. What specific problem are you experiencing?",
        "For account issues, I can assist with login problems, password resets, and account creation.",
        "Let me help you with your account. Are you having trouble logging in or creating an account?" >>,
      faqs |-> <<
        [ question |-> <<"h","o","w"," ","t","o"," ","r","e","s","e","t"," ","p","a","s","s","w","o","r","d">>,
          answer |-> "To reset your password, go to the login page and click 'Forgot Password'. You'll receive an email with reset instructions." ],
        [ question |-> <<"h","o","w"," ","t","o"," ","c","r","e","a","t","e"," ","a","c","c","o","u","n","t">>,
          answer |-> "To create an account, visit our signup page and fill in your details. You'll need a valid email address." ],
        [ question |-> <<"a","c","c","o","u","n","t"," ","l","o","c","k","e","d">>,
          answer |-> "If your account is locked, please contact our security team at security@company.com or call 1-800-SUPPORT." ] >> ],
    [ name |-> "billing",
      keywords |-> <<
        <<"b","i","l","l","i","n","g">>,
        <<"p","a","y","m","e","n","t">>,
        <<"i","n","v","o","i","c","e">>,
        <<"c","h","a","r","g","e">>,
        <<"s","u","b","s","c","r","i","p","t","i","o","n">>,
        <<"r","e","f","u","n","d">>,
        <<"m","o","n","e","y">> >>,
      responses |-> <<
        "I can help you with billing and payment questions. What would you like to know?",
        "For billing issues, I can assist with payments, invoices, and subscription management.",
        "Let me help you with your billing inquiry. Are you looking for payment information or have a billing question?" >>,
      faqs |-> <<
        [ question |-> <<"h","o","w"," ","t","o"," ","p","a","y">>,
          answer |-> "You can pay through our website using credit card, PayPal, or bank transfer. Go to Billing > Payment Methods." ],
        [ question |-> <<"r","e","f","u","n","d"," ","p","o","l","i","c","y">>,
          answer |-> "We offer a 30-day money-back guarantee. Contact billing@company.com for refund requests." ],
        [ question |-> <<"s","u","b","s","c","r","i","p","t","i","o","n"," ","r","e","n","e","w","a","l">>,
          answer |-> "Your subscription will automatically renew unless cancelled 7 days before the renewal date." ] >> ],
    [ name |-> "technical",
      keywords |-> <<
        <<"e","r","r","o","r">>,
        <<"b","u","g">>,
        <<"n","o","t"," ","w","o","r","k","i","n","g">>,
        <<"b","r","o","k","e","n">>,
        <<"c","r","a","s","h">>,
        <<"t","e","c","h","n","i","c","a","l">>,
        <<"p","r","o","b","l","e","m">> >>,
      responses |-> <<
        "I can help you troubleshoot technical issues. Can you describe what's happening?",
        "For technical problems, I'll need some details to help you effectively. What error are you seeing?",
        "Let me help you resolve this technical issue. What specific problem are you experiencing?" >>,
      faqs |-> <<
        [ question |-> <<"a","p","p"," ","n","o","t"," ","l","o","a","d","i","n","g">>,
          answer |-> "Try clearing your browser cache and cookies. If the problem persists, try a different browser." ],
        [ question |-> <<"s","l","o","w"," ","p","e","r","f","o","r","m","a","n","c","e">>,
          answer |-> "Check your internet connection and close unnecessary browser tabs. Clear cache if needed." ],
        [ question |-> <<"e","r","r","o","r"," ","m","e","s","s","a","g","e","s">>,
          answer |-> "Please share the exact error message you're seeing so I can provide specific help." ] >> ],
    [ name |-> "product",
      keywords |-> <<
        <<"p","r","o","d","u","c","t">>,
        <<"f","e","a","t","u","r","e">>,
        <<"h","o","w"," ","t","o">>,
        <<"t","u","t","o","r","i","a","l">>,
        <<"g","u","i","d","e">>,
        <<"h","e","l","p">> >>,
      responses |-> <<
        "I can help you learn about our products and features. What would you like to know?",
        "For product questions, I can provide information about features, tutorials, and usage guides.",
        "Let me help you with product information. What specific feature or product are you asking about?" >>,
      faqs |-> <<
        [ question |-> <<"h","o","w"," ","t","o"," ","u","s","e">>,
          answer |-> "Check our Help Center for detailed tutorials and guides. You can also watch our video tutorials." ],
        [ question |-> <<"f","e","a","t","u","r","e"," ","a","v","a","i","l","a","b","i","l","i","t","y">>,
          answer |-> "Feature availability depends on your subscription plan. Check your plan details in your account." ],
        [ question |-> <<"p","r","o","d","u","c","t"," ","u","p","d","a","t","e","s">>,
          answer |-> "We regularly update our products. Check our blog for the latest features and improvements." ] >> ]
  >>

escalation_responses ==
  << "I understand this is important. Let me connect you with a human specialist who can better assist you.",
     "This requires specialized attention. I'll transfer you to our expert team right away.",
     "For this complex issue, let me get you in touch with one of our senior support representatives.",
     "I want to ensure you get the best possible help. Let me escalate this to our specialist team." >>

escalation_keywords ==
  << <<"u","r","g","e","n","t">>,
     <<"e","m","e","r","g","e","n","c","y">>,
     <<"c","r","i","t","i","c","a","l">>,
     <<"b","r","o","k","e","n">>,
     <<"n","o","t"," ","w","o","r","k","i","n","g">>,
     <<"f","r","u","s","t","r","a","t","e","d">>,
     <<"a","n","g","r","y">>,
     <<"c","o","m","p","l","a","i","n","t">>,
     <<"e","s","c","a","l","a","t","e">>,
     <<"m","a","n","a","g","e","r">>,
     <<"h","u","m","a","n">>,
     <<"s","p","e","a","k"," ","t","o"," ","s","o","m","e","o","n","e">>,
     <<"r","e","a","l"," ","p","e","r","s","o","n">> >>

general_responses ==
  << "I understand you need help. Could you please provide more details about your issue?",
     "I'm here to help! Can you tell me more about what you're experiencing?",
     "Let me assist you with that. What specific problem are you facing?",
     "I want to make sure I can help you effectively. Could you elaborate on your issue?" >>


---------------------------------------------------------------------------
(* Literals of the code.                                                    *)

ticket == <<"t","i","c","k","e","t">>

TICKET_PREFIX == <<"T","I","C","K","E","T","-">>

Customer == <<"C","u","s","t","o","m","e","r">>

open == <<"o","p","e","n">>

exit_commands ==
  { <<"q","u","i","t">>, <<"e","x","i","t">>, <<"b","y","e">>,
    <<"g","o","o","d","b","y","e">> }

help_commands ==
  { <<"h","e","l","p">>, <<"c","o","m","m","a","n","d","s">>,
    <<"w","h","a","t"," ","c","a","n"," ","y","o","u"," ","d","o">> }

affirmative_replies ==
  { <<"y","e","s">>, <<"y">>,
    <<"c","r","e","a","t","e"," ","t","i","c","k","e","t">> }

\* Python's None, as returned by get_faq_response
None == "<None>"

\* A printed or returned message: the format string, the canned text put
\* into it (if any) and the formatted values (if any).
Message(fmt, text, args) == [ fmt |-> fmt, text |-> text, args |-> args ]

NoMessage == Message("", "", << >>)

---------------------------------------------------------------------------
(* The pure methods of ElizaSupportBot.                                     *)

\* any(keyword in text for keyword in keywords)
any_keyword_in(keywords, text) ==
  \E k \in 1..Len(keywords) : contains(keywords[k], text)

RECURSIVE classify_from(_, _)
classify_from(text_lower, c) ==
  IF c > Len(support_knowledge) THEN "general"
  ELSE IF any_keyword_in(support_knowledge[c].keywords, text_lower)
       THEN support_knowledge[c].name
       ELSE classify_from(text_lower, c + 1)

\* classify_intent with the return of line 134 turned into an assignment: the
\* last category with a hit wins
RECURSIVE classify_last_from(_, _, _)
classify_last_from(text_lower, c, found) ==
  IF c > Len(support_knowledge) THEN found
  ELSE classify_last_from(
         text_lower, c + 1,
         IF any_keyword_in(support_knowledge[c].keywords, text_lower)
         THEN support_knowledge[c].name ELSE found)

classify_intent_last_match(text) == classify_last_from(lower(text), 1, "general")

classify_intent(text) == classify_from(lower(text), 1)

RECURSIVE faq_from(_, _, _)
faq_from(faqs, text_lower, f) ==
  IF f > Len(faqs) THEN None
  ELSE IF any_keyword_in(split(faqs[f].question), text_lower)
       THEN faqs[f].answer
       ELSE faq_from(faqs, text_lower, f + 1)

\* get_faq_response with the return of line 156 turned into an assignment:
\* the last FAQ with a hit wins
RECURSIVE faq_last_from(_, _, _, _)
faq_last_from(faqs, text_lower, f, found) ==
  IF f > Len(faqs) THEN found
  ELSE faq_last_from(
         faqs, text_lower, f + 1,
         IF any_keyword_in(split(faqs[f].question), text_lower)
         THEN faqs[f].answer ELSE found)

get_faq_response_last_match(text, category) ==
  IF \E c \in 1..Len(support_knowledge) : support_knowledge[c].name = category
  THEN LET c == CHOOSE c \in 1..Len(support_knowledge) :
                  support_knowledge[c].name = category
       IN  faq_last_from(support_knowledge[c].faqs, lower(text), 1, None)
  ELSE None

get_faq_response(text, category) ==
  IF \E c \in 1..Len(support_knowledge) : support_knowledge[c].name = category
  THEN LET c == CHOOSE c \in 1..Len(support_knowledge) :
                  support_knowledge[c].name = category
       IN  faq_from(support_knowledge[c].faqs, lower(text), 1)
  ELSE None

should_escalate(text) ==
  any_keyword_in(escalation_keywords, lower(text))

\* f"TICKET-{n}"
format_ticket_id(digits) == TICKET_PREFIX \o digits

\* ticket_match with the pattern r'(\d+)': the first run of digits anywhere
ticket_match_any_digits(text) ==
  LET starts == { i \in 1..Len(text) : isdigit(text[i]) }
  IN  IF starts = {} THEN << >>
      ELSE LET s == CHOOSE i \in starts : \A j \in starts : i <= j
               ends == { e \in s..Len(text) : \A j \in s..e : isdigit(text[j]) }
               e == CHOOSE i \in ends : \A j \in ends : i >= j
           IN  SubSeq(text, s, e)

\* re.search(r'TICKET-(\d+)', text).group(1): the digits of the leftmost
\* match, the longest run of them; << >> when there is no match
ticket_match(text) ==
  LET n == Len(TICKET_PREFIX)
      starts == { i \in 1..(Len(text) - n) :
                    /\ SubSeq(text, i, i + n - 1) = TICKET_PREFIX
                    /\ isdigit(text[i + n]) }
  IN  IF starts = {} THEN << >>
      ELSE LET s == CHOOSE i \in starts : \A j \in starts : i <= j
               ends == { e \in (s + n)..Len(text) :
                           \A j \in (s + n)..e : isdigit(text[j]) }
               e == CHOOSE i \in ends : \A j \in ends : i >= j
           IN  SubSeq(text, s + n, e)

\* key in dict
has_key(dict, key) == \E i \in 1..Len(dict) : dict[i].key = key

\* dict[key]
lookup(dict, key) == dict[CHOOSE i \in 1..Len(dict) : dict[i].key = key].value

\* dict[key] = value: a present key keeps its place, a new key goes last
dict_set(dict, key, value) ==
  IF has_key(dict, key)
  THEN [ i \in 1..Len(dict) |->
           IF dict[i].key = key THEN [ key |-> key, value |-> value ] ELSE dict[i] ]
  ELSE Append(dict, [ key |-> key, value |-> value ])

\* get_ticket_status without the upper() of line 300
get_ticket_status_case_sensitive(text, tickets) ==
  LET digits == ticket_match(text)
      ticket_id == format_ticket_id(digits)
  IN  IF digits # << >>
      THEN IF has_key(tickets, ticket_id)
           THEN Message("Ticket {ticket_id} status: {status}. Created on {created_at}",
                        "", << ticket_id, title(lookup(tickets, ticket_id).status) >>)
           ELSE Message("Ticket {ticket_id} not found. Please check the ticket number.",
                        "", << ticket_id >>)
      ELSE Message("Please provide a valid ticket number (e.g., TICKET-1001)",
                   "", << >>)

get_ticket_status(text, tickets) ==
  LET digits == ticket_match(upper(text))
      ticket_id == format_ticket_id(digits)
  IN  IF digits # << >>
      THEN IF has_key(tickets, ticket_id)
           THEN Message("Ticket {ticket_id} status: {status}. Created on {created_at}",
                        "", << ticket_id, title(lookup(tickets, ticket_id).status) >>)
           ELSE Message("Ticket {ticket_id} not found. Please check the ticket number.",
                        "", << ticket_id >>)
      ELSE Message("Please provide a valid ticket number (e.g., TICKET-1001)",
                   "", << >>)

get_help_message(name) ==
  Message("I'm Aliza, your customer support assistant! ... How can I assist you today, {user_name}?",
          "", << name >>)

\* random.choice(texts), put into fmt: every outcome the call can have
choices(fmt, texts) == { Message(fmt, texts[i], << >>) : i \in 1..Len(texts) }

is_ticket_inquiry(text) ==
  contains(ticket, lower(text)) /\ \E i \in 1..Len(text) : isdigit(text[i])

\* The values get_response(text) can return with the given ticket store and
\* user name (the append to conversation_history is in get_response_call).
get_response(text, tickets, name) ==
  IF lower(text) \in exit_commands
  THEN { Message("Thank you for contacting Aliza Support! Have a great day, {user_name}!",
                 "", << name >>) }
  ELSE IF lower(text) \in help_commands
  THEN { get_help_message(name) }
  ELSE IF is_ticket_inquiry(text)
  THEN { get_ticket_status(text, tickets) }
  ELSE IF should_escalate(text)
  THEN choices("{0} Please hold while I connect you...", escalation_responses)
  ELSE LET intent == classify_intent(text)
           faq_response == get_faq_response(text, intent)
       IN  IF faq_response # None /\ faq_response # ""
           THEN { Message("{0}", faq_response, << >>) }
           ELSE IF \E c \in 1..Len(support_knowledge) :
                     support_knowledge[c].name = intent
           THEN LET c == CHOOSE c \in 1..Len(support_knowledge) :
                           support_knowledge[c].name = intent
                IN  choices("{0}", support_knowledge[c].responses)
           ELSE choices("{0}", general_responses)

---------------------------------------------------------------------------
(* Bounds and the lines a user types.                                       *)

\* conversation_history grows to at most MaxTurns entries under Spec
MaxTurns == 4

\* and to at most MaxTicketTurns entries under SpecTickets
MaxTicketTurns == 5

\* a line given to a method called on its own has at most MaxWords words
MaxWords == 3

\* what the user types at the name prompt
NameInputs ==
  { <<>>,
    <<" ","A","l"," ">> }

\* what the user types at the main prompt under Spec: one line for each
\* path of get_response, and the empty line
LoopInputs ==
  { <<>>,
    <<" ","Q","u","i","t"," ">>,
    <<"h","e","l","p">>,
    <<"c","r","e","a","t","e"," ","t","i","c","k","e","t">>,
    <<"s","t","a","t","u","s"," ","o","f"," ","t","i","c","k","e","t","-","1","0","0","1">>,
    <<"m","y"," ","t","i","c","k","e","t"," ","i","s"," ","u","r","g","e","n","t">>,
    <<"I"," ","f","o","r","g","o","t"," ","m","y"," ","p","a","s","s","w","o","r","d">>,
    <<"t","i","c","k","e","t"," ","f","o","r"," ","m","y"," ","l","o","g","i","n">> }

\* what the user types at the main prompt under SpecTickets
TicketInputs ==
  { <<>>,
    <<"s","t","a","t","u","s"," ","o","f"," ","t","i","c","k","e","t","-","1","0","0","1">>,
    <<"T","I","C","K","E","T","-","1","0","0","2"," ","p","l","e","a","s","e">>,
    <<"m","y"," ","t","i","c","k","e","t"," ","n","o"," ","1","0","0","1">>,
    <<"I"," ","f","o","r","g","o","t"," ","m","y"," ","p","a","s","s","w","o","r","d">> }

\* what the user types at the name prompt and at the ticket offer under Spec
LoopNameInputs ==
  { <<" ","A","l"," ">> }

LoopOfferInputs ==
  { <<" ","Y"," ">>,
    <<"n","o">> }

\* what the user types at the ticket offer
OfferInputs ==
  { <<" ","Y"," ">>,
    <<"n","o">>,
    <<"c","r","e","a","t","e"," ","t","i","c","k","e","t">>,
    <<"Y","e","s">> }

\* the words of the lines given to a method called on its own
Vocabulary ==
  { <<"B","y","e">>,
    <<"h","e","l","p">>,
    <<"t","i","c","k","e","t">>,
    <<"T","i","c","k","e","t","-","1","0","0","1">>,
    <<"7">>,
    <<"u","r","g","e","n","t">>,
    <<"b","r","o","k","e","n">>,
    <<"p","a","s","s","w","o","r","d">>,
    <<"r","e","f","u","n","d">>,
    <<"l","o","g","i","n">>,
    <<"a","c","c","o","u","n","t">>,
    <<"h","e","l","l","o">> }

\* the lines of the end-to-end scenarios
ScenarioLines ==
  { <<"I"," ","f","o","r","g","o","t"," ","m","y"," ","p","a","s","s","w","o","r","d">>,
    <<"t","h","i","s"," ","i","s"," ","u","r","g","e","n","t",","," ","I"," ","n","e","e","d"," ","a"," ","h","u","m","a","n">> }

\* ' '.join(words)
RECURSIVE join(_)
join(words) ==
  IF words = << >> THEN << >>
  ELSE IF Len(words) = 1 THEN words[1]
  ELSE words[1] \o << " " >> \o join(Tail(words))

Lines ==
  { join(ws) : ws \in UNION { [1..n -> Vocabulary] : n \in 0..MaxWords } }
    \cup ScenarioLines

---------------------------------------------------------------------------
(* The state after ElizaSupportBot() (lines 23-27); the locals of chat_loop *)
(* are not yet assigned.                                                    *)

Constructed ==
  /\ user_name = Customer
  /\ conversation_history = << >>
  /\ support_tickets = << >>
  /\ ticket_counter = 1000
  /\ user_input = << >>
  /\ response = NoMessage
  /\ ticket_response = << >>
  /\ offers = 0

---------------------------------------------------------------------------
(* The methods that change the bot.                                         *)

\* get_response with the exit check of lines 219-220 ahead of the append
get_response_call_exit_first(text) ==
  /\ conversation_history' =
       IF lower(text) \in exit_commands THEN conversation_history
       ELSE Append(conversation_history, text)
  /\ response' \in get_response(text, support_tickets, user_name)

\* get_response(text): the append of line 216, then the selected response
get_response_call(text) ==
  /\ conversation_history' = Append(conversation_history, text)
  /\ response' \in get_response(text, support_tickets, user_name)

\* create_support_ticket with the ID formatted before the increment
create_support_ticket_stale_id(issue_description) ==
  LET ticket_id == format_ticket_id(int_to_str(ticket_counter))
  IN  /\ ticket_counter' = ticket_counter + 1
      /\ support_tickets' =
           dict_set(support_tickets, ticket_id,
                    [ user_name |-> user_name,
                      issue |-> issue_description,
                      status |-> open ])

\* create_support_ticket(issue_description): the counter and the store
create_support_ticket(issue_description) ==
  LET counter == ticket_counter + 1
      ticket_id == format_ticket_id(int_to_str(counter))
  IN  /\ ticket_counter' = counter
      /\ support_tickets' =
           dict_set(support_tickets, ticket_id,
                    [ user_name |-> user_name,
                      issue |-> issue_description,
                      status |-> open ])

---------------------------------------------------------------------------
(* chat_loop.  pc: "name" at the name prompt of get_user_name, "prompt" at  *)
(* the input() of line 327, "offer" at the input() of line 340, "done"     *)
(* after the break of line 347, "crashed" when an exception left chat_loop. *)

\* get_user_name (lines 319-321, 111-115)
GetUserName(raw) ==
  /\ pc = "name"
  /\ user_name' = IF strip(raw) # << >> THEN strip(raw) ELSE user_name
  /\ pc' = "prompt"
  /\ UNCHANGED << conversation_history, support_tickets, ticket_counter,
                  user_input, response, ticket_response, offers >>

\* input() of line 111 raises (KeyboardInterrupt, EOFError): outside the try
NameInputFails ==
  /\ pc = "name"
  /\ pc' = "crashed"
  /\ UNCHANGED << user_name, conversation_history, support_tickets,
                  ticket_counter, user_input, response, ticket_response, offers >>

\* lines 327-331: an empty line is skipped
SkipEmpty(raw) ==
  /\ pc = "prompt"
  /\ strip(raw) = << >>
  /\ user_input' = strip(raw)
  /\ UNCHANGED << pc, user_name, conversation_history, support_tickets,
                  ticket_counter, response, ticket_response, offers >>

\* variant: the offer starts with the third entry of the history
offers_ticket_from_third(history, text) ==
  Len(history) >= 3 /\ ~contains(ticket, lower(text))

\* the check of line 338
offers_ticket(history, text) ==
  Len(history) > 3 /\ ~contains(ticket, lower(text))

\* lines 327-339: one turn, up to the ticket offer
TurnWithin(raw, bound) ==
  /\ pc = "prompt"
  /\ strip(raw) # << >>
  /\ Len(conversation_history) < bound
  /\ user_input' = strip(raw)
  /\ get_response_call(strip(raw))
  /\ IF offers_ticket(conversation_history', strip(raw))
     THEN pc' = "offer" /\ offers' = offers + 1
     ELSE pc' = "prompt" /\ offers' = offers
  /\ UNCHANGED << user_name, support_tickets, ticket_counter, ticket_response >>

Turn(raw) == TurnWithin(raw, MaxTurns)

TicketTurn(raw) == TurnWithin(raw, MaxTicketTurns)

\* the reply to the ticket offer without the check of line 341
OfferReply_any_reply(raw) ==
  /\ pc = "offer"
  /\ ticket_response' = lower(strip(raw))
  /\ create_support_ticket(user_input)
  /\ pc' = "prompt"
  /\ UNCHANGED << user_name, conversation_history, user_input, response, offers >>

\* lines 340-343: the reply to the ticket offer
OfferReply(raw) ==
  /\ pc = "offer"
  /\ ticket_response' = lower(strip(raw))
  /\ IF ticket_response' \in affirmative_replies
     THEN create_support_ticket(user_input)
     ELSE UNCHANGED << support_tickets, ticket_counter >>
  /\ pc' = "prompt"
  /\ UNCHANGED << user_name, conversation_history, user_input, response, offers >>

\* lines 345-347: KeyboardInterrupt at either input() of the loop
Interrupt ==
  /\ pc \in { "prompt", "offer" }
  /\ pc' = "done"
  /\ UNCHANGED << user_name, conversation_history, support_tickets,
                  ticket_counter, user_input, response, ticket_response, offers >>

\* lines 348-349: any other exception of input() (EOFError); the loop goes on
InputError ==
  /\ pc \in { "prompt", "offer" }
  /\ pc' = "prompt"
  /\ UNCHANGED << user_name, conversation_history, support_tickets,
                  ticket_counter, user_input, response, ticket_response, offers >>

Init == pc = "name" /\ Constructed

Next ==
  \/ \E raw \in LoopNameInputs : GetUserName(raw)
  \/ NameInputFails
  \/ \E raw \in LoopInputs : SkipEmpty(raw)
  \/ \E raw \in LoopInputs : Turn(raw)
  \/ \E raw \in LoopOfferInputs : OfferReply(raw)
  \/ Interrupt
  \/ InputError

Spec == Init /\ [][Next]_vars

\* The same loop with the lines that concern tickets, for longer conversations.
NextTickets ==
  \/ \E raw \in NameInputs : GetUserName(raw)
  \/ NameInputFails
  \/ \E raw \in TicketInputs : SkipEmpty(raw)
  \/ \E raw \in TicketInputs : TicketTurn(raw)
  \/ \E raw \in OfferInputs : OfferReply(raw)
  \/ Interrupt
  \/ InputError

SpecTickets == Init /\ [][NextTickets]_vars

---------------------------------------------------------------------------
(* The methods called on their own, once, on a freshly constructed bot.     *)

CallClassifyIntent ==
  /\ pc = "call"
  /\ response' = classify_intent(user_input)
  /\ pc' = "classify_intent"
  /\ UNCHANGED << user_name, conversation_history, support_tickets,
                  ticket_counter, user_input, ticket_response, offers >>

CallGetFaqResponse ==
  /\ pc = "call"
  /\ response' = get_faq_response(user_input, classify_intent(user_input))
  /\ pc' = "get_faq_response"
  /\ UNCHANGED << user_name, conversation_history, support_tickets,
                  ticket_counter, user_input, ticket_response, offers >>

CallShouldEscalate ==
  /\ pc = "call"
  /\ response' = should_escalate(user_input)
  /\ pc' = "should_escalate"
  /\ UNCHANGED << user_name, conversation_history, support_tickets,
                  ticket_counter, user_input, ticket_response, offers >>

CallGetResponse ==
  /\ pc = "call"
  /\ get_response_call(user_input)
  /\ pc' = "get_response"
  /\ UNCHANGED << user_name, support_tickets, ticket_counter, user_input,
                  ticket_response, offers >>

InitCall ==
  /\ pc = "call"
  /\ user_name = Customer
  /\ conversation_history = << >>
  /\ support_tickets = << >>
  /\ ticket_counter = 1000
  /\ user_input \in Lines
  /\ response = NoMessage
  /\ ticket_response = << >>
  /\ offers = 0

NextCall ==
  \/ CallClassifyIntent
  \/ CallGetFaqResponse
  \/ CallShouldEscalate
  \/ CallGetResponse

SpecCall == InitCall /\ [][NextCall]_vars

---------------------------------------------------------------------------
(* ELIZA (src/Eliza.py): the reflection map, the rule table and the loop.   *)

\* reflections (lines 13-27), a dict in insertion order
reflections ==
  << [ key |-> <<"a","m">>, value |-> <<"a","r","e">> ],
     [ key |-> <<"i">>, value |-> <<"y","o","u">> ],
     [ key |-> <<"i","'","d">>, value |-> <<"y","o","u"," ","w","o","u","l","d">> ],
     [ key |-> <<"i","'","v","e">>, value |-> <<"y","o","u"," ","h","a","v","e">> ],
     [ key |-> <<"i","'","l","l">>, value |-> <<"y","o","u"," ","w","i","l","l">> ],
     [ key |-> <<"m","y">>, value |-> <<"y","o","u","r">> ],
     [ key |-> <<"a","r","e">>, value |-> <<"a","m">> ],
     [ key |-> <<"y","o","u","'","v","e">>, value |-> <<"I"," ","h","a","v","e">> ],
     [ key |-> <<"y","o","u","'","l","l">>, value |-> <<"I"," ","w","i","l","l">> ],
     [ key |-> <<"y","o","u","r">>, value |-> <<"m","y">> ],
     [ key |-> <<"y","o","u","r","s">>, value |-> <<"m","i","n","e">> ],
     [ key |-> <<"y","o","u">>, value |-> <<"m","e">> ],
     [ key |-> <<"m","e">>, value |-> <<"y","o","u">> ] >>

\* dict.get(key, default)
dict_get(dict, key, default) ==
  IF has_key(dict, key) THEN lookup(dict, key) ELSE default

\* variant: the fragment is split without being lowercased
reflect_keeps_case(fragment) ==
  LET tokens == split(fragment)
      reflected == [ i \in 1..Len(tokens) |->
                       dict_get(reflections, tokens[i], tokens[i]) ]
  IN  join(reflected)

\* reflect(fragment) (lines 39-41)
reflect(fragment) ==
  LET tokens == split(lower(fragment))
      reflected == [ i \in 1..Len(tokens) |->
                       dict_get(reflections, tokens[i], tokens[i]) ]
  IN  join(reflected)

\* The rule table (lines 45-113).  A pattern is given by its shape: "prefix"
\* is a literal at the start of the line (one literal for each reading of an
\* optional apostrophe), "infix" is (.*) followed by a literal; the group that
\* follows is "rest" for (.*), "not_question" for ([^\?]*)\?? and "none".
patterns ==
  <<
    [ form |-> "prefix",
      literals |-> { <<"I"," ","n","e","e","d"," ">> },
      group |-> "rest",
      responses |-> <<
        <<"W","h","y"," ","d","o"," ","y","o","u"," ","n","e","e","d"," ","{","0","}","?">>,
        <<"W","o","u","l","d"," ","i","t"," ","r","e","a","l","l","y"," ","h","e","l","p"," ","y","o","u"," ","t","o"," ","g","e","t"," ","{","0","}","?">>,
        <<"A","r","e"," ","y","o","u"," ","s","u","r","e"," ","y","o","u"," ","n","e","e","d"," ","{","0","}","?">> >> ],
    [ form |-> "prefix",
      literals |-> { <<"W","h","y"," ","d","o","n","'","t"," ","y","o","u"," ">>, <<"W","h","y"," ","d","o","n","t"," ","y","o","u"," ">> },
      group |-> "not_question",
      responses |-> <<
        <<"D","o"," ","y","o","u"," ","r","e","a","l","l","y"," ","t","h","i","n","k"," ","I"," ","d","o","n","'","t"," ","{","0","}","?">>,
        <<"P","e","r","h","a","p","s"," ","e","v","e","n","t","u","a","l","l","y"," ","I"," ","w","i","l","l"," ","{","0","}",".">>,
        <<"D","o"," ","y","o","u"," ","r","e","a","l","l","y"," ","w","a","n","t"," ","m","e"," ","t","o"," ","{","0","}","?">> >> ],
    [ form |-> "prefix",
      literals |-> { <<"W","h","y"," ","c","a","n","'","t"," ","I"," ">>, <<"W","h","y"," ","c","a","n","t"," ","I"," ">> },
      group |-> "not_question",
      responses |-> <<
        <<"D","o"," ","y","o","u"," ","t","h","i","n","k"," ","y","o","u"," ","s","h","o","u","l","d"," ","b","e"," ","a","b","l","e"," ","t","o"," ","{","0","}","?">>,
        <<"I","f"," ","y","o","u"," ","c","o","u","l","d"," ","{","0","}",","," ","w","h","a","t"," ","w","o","u","l","d"," ","y","o","u"," ","d","o","?">>,
        <<"I"," ","d","o","n","'","t"," ","k","n","o","w"," ","-","-"," ","w","h","y"," ","c","a","n","'","t"," ","y","o","u"," ","{","0","}","?">>,
        <<"H","a","v","e"," ","y","o","u"," ","r","e","a","l","l","y"," ","t","r","i","e","d","?">> >> ],
    [ form |-> "prefix",
      literals |-> { <<"I"," ","c","a","n","'","t"," ">>, <<"I"," ","c","a","n","t"," ">> },
      group |-> "rest",
      responses |-> <<
        <<"H","o","w"," ","d","o"," ","y","o","u"," ","k","n","o","w"," ","y","o","u"," ","c","a","n","'","t"," ","{","0","}","?">>,
        <<"P","e","r","h","a","p","s"," ","y","o","u"," ","c","o","u","l","d"," ","{","0","}"," ","i","f"," ","y","o","u"," ","t","r","i","e","d",".">>,
        <<"W","h","a","t"," ","w","o","u","l","d"," ","i","t"," ","t","a","k","e"," ","f","o","r"," ","y","o","u"," ","t","o"," ","{","0","}","?">> >> ],
    [ form |-> "prefix",
      literals |-> { <<"I"," ","a","m"," ">> },
      group |-> "rest",
      responses |-> <<
        <<"D","i","d"," ","y","o","u"," ","c","o","m","e"," ","t","o"," ","m","e"," ","b","e","c","a","u","s","e"," ","y","o","u"," ","a","r","e"," ","{","0","}","?">>,
        <<"H","o","w"," ","l","o","n","g"," ","h","a","v","e"," ","y","o","u"," ","b","e","e","n"," ","{","0","}","?">>,
        <<"H","o","w"," ","d","o"," ","y","o","u"," ","f","e","e","l"," ","a","b","o","u","t"," ","b","e","i","n","g"," ","{","0","}","?">> >> ],
    [ form |-> "prefix",
      literals |-> { <<"I","'","m"," ">>, <<"I","m"," ">> },
      group |-> "rest",
      responses |-> <<
        <<"W","h","y"," ","a","r","e"," ","y","o","u"," ","{","0","}","?">>,
        <<"H","o","w"," ","d","o","e","s"," ","b","e","i","n","g"," ","{","0","}"," ","m","a","k","e"," ","y","o","u"," ","f","e","e","l","?">>,
        <<"D","o"," ","y","o","u"," ","e","n","j","o","y"," ","b","e","i","n","g"," ","{","0","}","?">> >> ],
    [ form |-> "infix",
      literals |-> { <<" ","m","o","t","h","e","r">> },
      group |-> "rest",
      responses |-> <<
        <<"T","e","l","l"," ","m","e"," ","m","o","r","e"," ","a","b","o","u","t"," ","y","o","u","r"," ","m","o","t","h","e","r",".">>,
        <<"W","h","a","t"," ","w","a","s"," ","y","o","u","r"," ","r","e","l","a","t","i","o","n","s","h","i","p"," ","w","i","t","h"," ","y","o","u","r"," ","m","o","t","h","e","r"," ","l","i","k","e","?">>,
        <<"H","o","w"," ","d","o"," ","y","o","u"," ","f","e","e","l"," ","a","b","o","u","t"," ","y","o","u","r"," ","m","o","t","h","e","r","?">> >> ],
    [ form |-> "prefix",
      literals |-> { <<"H","e","l","l","o">> },
      group |-> "rest",
      responses |-> <<
        <<"H","e","l","l","o",".",".","."," ","I","'","m"," ","g","l","a","d"," ","y","o","u"," ","c","o","u","l","d"," ","d","r","o","p"," ","b","y"," ","t","o","d","a","y",".">>,
        <<"H","i"," ","t","h","e","r","e",".",".","."," ","h","o","w"," ","a","r","e"," ","y","o","u"," ","t","o","d","a","y","?">>,
        <<"H","e","l","l","o",","," ","h","o","w"," ","a","r","e"," ","y","o","u"," ","f","e","e","l","i","n","g"," ","t","o","d","a","y","?">> >> ],
    [ form |-> "prefix",
      literals |-> { <<"Q","u","i","t">> },
      group |-> "none",
      responses |-> <<
        <<"T","h","a","n","k"," ","y","o","u"," ","f","o","r"," ","t","a","l","k","i","n","g"," ","w","i","t","h"," ","m","e",".">>,
        <<"G","o","o","d","b","y","e",".">>,
        <<"H","a","v","e"," ","a"," ","g","r","e","a","t"," ","d","a","y","!">> >> ],
    [ form |-> "prefix",
      literals |-> { << >> },
      group |-> "rest",
      responses |-> <<
        <<"P","l","e","a","s","e"," ","t","e","l","l"," ","m","e"," ","m","o","r","e",".">>,
        <<"L","e","t","'","s"," ","c","h","a","n","g","e"," ","f","o","c","u","s"," ","a"," ","b","i","t",".",".","."," ","T","e","l","l"," ","m","e"," ","a","b","o","u","t"," ","y","o","u","r"," ","f","a","m","i","l","y",".">>,
        <<"C","a","n"," ","y","o","u"," ","e","l","a","b","o","r","a","t","e"," ","o","n"," ","t","h","a","t","?">>,
        <<"W","h","y"," ","d","o"," ","y","o","u"," ","s","a","y"," ","t","h","a","t"," ","{","0","}","?">>,
        <<"I"," ","s","e","e",".">>,
        <<"V","e","r","y"," ","i","n","t","e","r","e","s","t","i","n","g",".">>,
        <<"{","0","}",".">>,
        <<"I"," ","s","e","e","."," ","A","n","d"," ","w","h","a","t"," ","d","o","e","s"," ","t","h","a","t"," ","t","e","l","l"," ","y","o","u","?">>,
        <<"H","o","w"," ","d","o","e","s"," ","t","h","a","t"," ","m","a","k","e"," ","y","o","u"," ","f","e","e","l","?">>,
        <<"H","o","w"," ","d","o"," ","y","o","u"," ","f","e","e","l"," ","w","h","e","n"," ","y","o","u"," ","s","a","y"," ","t","h","a","t","?">> >> ]
  >>

\* the text matches the literal at position i, ignoring case (re.IGNORECASE)
literal_at(text, i, literal) ==
  /\ i + Len(literal) - 1 <= Len(text)
  /\ lower(SubSeq(text, i, i + Len(literal) - 1)) = lower(literal)

\* the longest prefix of the text without a question mark: ([^\?]*)
up_to_question(text) ==
  LET marks == { i \in 1..Len(text) : text[i] = "?" }
  IN  IF marks = {} THEN text
      ELSE SubSeq(text, 1, (CHOOSE i \in marks : \A j \in marks : i <= j) - 1)

\* the group of a rule taken from what follows its literal
group_of(rule, rest) ==
  IF rule.group = "rest" THEN << rest >>
  ELSE IF rule.group = "not_question" THEN << up_to_question(rest) >>
  ELSE << >>

\* variant: every (.*) group must take at least one character
match_rule_nonempty_group(rule, text) ==
  LET hits == { literal \in rule.literals : literal_at(text, 1, literal) }
      at == { i \in 1..Len(text) :
                literal_at(text, i, CHOOSE l \in rule.literals : TRUE) }
      whole == IF rule.form = "prefix"
               THEN IF hits = {} THEN [ matched |-> FALSE, groups |-> << >> ]
                    ELSE [ matched |-> TRUE,
                           groups |-> group_of(rule,
                             SubSeq(text, Len(CHOOSE l \in hits : TRUE) + 1, Len(text))) ]
               ELSE IF at = {} THEN [ matched |-> FALSE, groups |-> << >> ]
                    ELSE LET i == CHOOSE i \in at : \A j \in at : i >= j
                             literal == CHOOSE l \in rule.literals : TRUE
                         IN  [ matched |-> TRUE,
                               groups |-> << SubSeq(text, 1, i - 1),
                                             SubSeq(text, i + Len(literal), Len(text)) >> ]
  IN  IF whole.matched /\ rule.group = "rest"
         /\ \E g \in 1..Len(whole.groups) : whole.groups[g] = << >>
      THEN [ matched |-> FALSE, groups |-> << >> ]
      ELSE whole

\* re.match(pattern, text, re.IGNORECASE) (line 138): whether the pattern
\* matches at the start of the text, and match.groups()
match_rule(rule, text) ==
  IF rule.form = "prefix"
  THEN LET hits == { literal \in rule.literals : literal_at(text, 1, literal) }
       IN  IF hits = {} THEN [ matched |-> FALSE, groups |-> << >> ]
           ELSE LET literal == CHOOSE l \in hits : TRUE
                IN  [ matched |-> TRUE,
                      groups |-> group_of(rule, SubSeq(text, Len(literal) + 1, Len(text))) ]
  ELSE LET literal == CHOOSE l \in rule.literals : TRUE
           at == { i \in 1..Len(text) : literal_at(text, i, literal) }
       IN  IF at = {} THEN [ matched |-> FALSE, groups |-> << >> ]
           ELSE LET i == CHOOSE i \in at : \A j \in at : i >= j
                IN  [ matched |-> TRUE,
                      groups |-> << SubSeq(text, 1, i - 1),
                                    SubSeq(text, i + Len(literal), Len(text)) >> ]

\* the template begins with a replacement field {d}
field_at(template) ==
  /\ Len(template) >= 3
  /\ template[1] = "{"
  /\ isdigit(template[2])
  /\ template[3] = "}"

field_index(template) == CHOOSE d \in 0..9 : DigitChars[d + 1] = template[2]

\* str.format raises IndexError: a field has no argument
RECURSIVE format_fails(_, _)
format_fails(template, args) ==
  IF template = << >> THEN FALSE
  ELSE IF field_at(template)
       THEN \/ field_index(template) >= Len(args)
            \/ format_fails(SubSeq(template, 4, Len(template)), args)
       ELSE format_fails(Tail(template), args)

\* template.format(*args) (line 148)
RECURSIVE format(_, _)
format(template, args) ==
  IF template = << >> THEN << >>
  ELSE IF field_at(template)
       THEN args[field_index(template) + 1]
              \o format(SubSeq(template, 4, Len(template)), args)
       ELSE << Head(template) >> \o format(Tail(template), args)

\* variant: the scan keeps going and the last matching rule answers
first_match_last(text, r) ==
  LET hits == { q \in r..Len(patterns) : match_rule(patterns[q], text).matched }
  IN  IF hits = {} THEN 0 ELSE CHOOSE q \in hits : \A o \in hits : q >= o

\* the for loop of lines 137-149: the first rule, from rule r on, whose
\* pattern matches; 0 when the loop ends without a match
RECURSIVE first_match(_, _)
first_match(text, r) ==
  IF r > Len(patterns) THEN 0
  ELSE IF match_rule(patterns[r], text).matched THEN r
  ELSE first_match(text, r + 1)

\* [reflect(g) for g in groups] (line 145)
reflected_groups(groups) == [ i \in 1..Len(groups) |-> reflect(groups[i]) ]

\* the index of the rule r'Quit' in patterns (lines 95-99)
quit_rule == 9

eliza_exit_commands == { <<"q","u","i","t">>, <<"e","x","i","t">> }

eliza_greeting == <<"H","e","l","l","o","."," ","H","o","w"," ","a","r","e"," ","y","o","u"," ","f","e","e","l","i","n","g"," ","t","o","d","a","y","?">>

eliza_goodbye == <<"G","o","o","d","b","y","e","."," ","T","a","k","e"," ","c","a","r","e","!">>

\* what the user types at the prompt of eliza_chat
ElizaInputs ==
  { << >>,
    <<"I"," ","n","e","e","d"," ","a"," ","b","r","e","a","k">>,
    <<"W","h","y"," ","d","o","n","'","t"," ","y","o","u"," ","h","e","l","p"," ","m","e","?">>,
    <<"w","h","y"," ","d","o","n","t"," ","y","o","u"," ","l","i","s","t","e","n">>,
    <<"W","h","y"," ","c","a","n","'","t"," ","I"," ","s","l","e","e","p","?"," ","I"," ","t","r","y">>,
    <<"I"," ","c","a","n","'","t"," ","s","l","e","e","p">>,
    <<"I"," ","a","m"," ","s","a","d">>,
    <<"i"," ","a","m"," ","s","a","d"," ","a","b","o","u","t"," ","m","y"," ","m","o","t","h","e","r">>,
    <<"I","'","m"," ","t","i","r","e","d"," ","o","f"," ","y","o","u">>,
    <<"I","m"," ","y","o","u","r"," ","f","r","i","e","n","d">>,
    <<"m","y"," ","m","o","t","h","e","r"," ","h","a","t","e","s"," ","m","e">>,
    <<"t","e","l","l"," ","m","o","t","h","e","r"," ","a","n","d"," ","m","y"," ","m","o","t","h","e","r"," ","t","o"," ","c","a","l","l">>,
    <<"H","e","l","l","o"," ","t","h","e","r","e">>,
    <<"Q","u","i","t">>,
    <<"q","u","i","t">>,
    <<"E","X","I","T">>,
    <<"q","u","i","t"," ","n","o","w">>,
    <<"Q","u","i","t","t","i","n","g">>,
    <<"y","o","u"," ","a","r","e"," ","m","y"," ","f","r","i","e","n","d">>,
    <<"Y","o","u","'","v","e"," ","b","e","e","n"," ","k","i","n","d">>,
    <<"m","o","t","h","e","r">>,
    <<"w","h","a","t","?">> }

\* the words of the fragments given to reflect called on its own
ReflectVocabulary ==
  { <<"I">>,
    <<"m","y">>,
    <<"Y","o","u","'","v","e">>,
    <<"y","o","u","'","l","l">>,
    <<"C","a","r">>,
    <<"a","r","e">>,
    <<" ">>,
    <<"\t">> }

Fragments ==
  { join(ws) : ws \in UNION { [1..n -> ReflectVocabulary] : n \in 0..MaxWords } }

\* eliza_chat.  pc: "prompt" at the input() of line 129, "done" after the
\* break of line 134, "crashed" when an exception left eliza_chat.  response
\* is the line printed last (empty when an iteration printed nothing).  The
\* variables of the support bot take no part.

\* lines 129-149: one iteration of the loop
ElizaTurn(raw) ==
  /\ pc = "prompt"
  /\ user_input' = raw
  /\ IF lower(raw) \in eliza_exit_commands
     THEN response' = eliza_goodbye /\ pc' = "done"
     ELSE LET r == first_match(raw, 1)
          IN  IF r = 0
              THEN response' = << >> /\ pc' = "prompt"
              ELSE \E n \in 1..Len(patterns[r].responses) :
                     LET args == reflected_groups(match_rule(patterns[r], raw).groups)
                     IN  IF format_fails(patterns[r].responses[n], args)
                         THEN response' = response /\ pc' = "crashed"
                         ELSE /\ response' = format(patterns[r].responses[n], args)
                              /\ pc' = "prompt"
  /\ UNCHANGED << user_name, conversation_history, support_tickets,
                  ticket_counter, ticket_response, offers >>

\* input() of line 129 raises (KeyboardInterrupt, EOFError): there is no try
ElizaInputFails ==
  /\ pc = "prompt"
  /\ pc' = "crashed"
  /\ UNCHANGED << user_name, conversation_history, support_tickets,
                  ticket_counter, user_input, response, ticket_response, offers >>

\* line 126
InitEliza ==
  /\ pc = "prompt"
  /\ user_input = << >>
  /\ response = eliza_greeting
  /\ user_name = << >>
  /\ conversation_history = << >>
  /\ support_tickets = << >>
  /\ ticket_counter = 0
  /\ ticket_response = << >>
  /\ offers = 0

NextEliza ==
  \/ \E raw \in ElizaInputs : ElizaTurn(raw)
  \/ ElizaInputFails

SpecEliza == InitEliza /\ [][NextEliza]_vars

\* reflect called on its own
CallReflect ==
  /\ pc = "call"
  /\ response' = reflect(user_input)
  /\ pc' = "reflect"
  /\ UNCHANGED << user_name, conversation_history, support_tickets,
                  ticket_counter, user_input, ticket_response, offers >>

InitReflect ==
  /\ pc = "call"
  /\ user_input \in Fragments
  /\ response = << >>
  /\ user_name = << >>
  /\ conversation_history = << >>
  /\ support_tickets = << >>
  /\ ticket_counter = 0
  /\ ticket_response = << >>
  /\ offers = 0

NextReflect == CallReflect

SpecReflect == InitReflect /\ [][NextReflect]_vars

---------------------------------------------------------------------------
(* Claims.                                                                  *)

Last(seq) == seq[Len(seq)]

\* the turns of the conversation whose input is an exit command
ExitTurns ==
  { i \in 1..Len(conversation_history) :
      lower(conversation_history[i]) \in exit_commands }

\* C1: after a turn whose input is quit, exit, bye or goodbye (in any letter
\* case) the conversation is terminated and stays so: the exit turn is the
\* last turn of the history, the loop has ended and no ticket offer is open.
C1_ExitTerminates ==
  \A i \in ExitTurns : i = Len(conversation_history) /\ pc = "done"

EscalationMessages ==
  choices("{0} Please hold while I connect you...", escalation_responses)

\* C2: whenever should_escalate holds of the line given to get_response, the
\* value returned is one of the escalation messages, whatever else the line
\* contains.
C2_EscalationFirst ==
  (pc = "get_response" /\ should_escalate(user_input))
    => response \in EscalationMessages

\* C3: a ticket enters the store only by the reply step of an open ticket
\* offer, with an affirmative reply (yes, y, create ticket), and its issue is
\* the input of the turn that made the offer; there are never more tickets
\* than offers.
C3_TicketOnlyOnConfirmedOffer ==
  /\ [][ support_tickets' # support_tickets =>
           /\ pc = "offer"
           /\ ticket_response' \in affirmative_replies
           /\ Len(support_tickets') = Len(support_tickets) + 1
           /\ Last(support_tickets').value.issue = Last(conversation_history)
           /\ conversation_history' = conversation_history ]_vars
  /\ [](Len(support_tickets) <= offers)

\* C3 witness: an offer declined and a later offer accepted
C3_Witness ==
  /\ offers = 2
  /\ Len(support_tickets) = 1
  /\ ticket_response \in affirmative_replies

create_ticket_command == <<"c","r","e","a","t","e"," ","t","i","c","k","e","t">>

\* the turns of the conversation whose input is the "create ticket" command
CreateTicketTurns ==
  { i \in 1..Len(conversation_history) :
      lower(conversation_history[i]) = create_ticket_command }

\* C4: every completed turn whose input is "create ticket" has added a ticket
\* to the store.
C4_CreateTicketCommand ==
  pc \in { "prompt", "done" } =>
    Len(support_tickets) >= Cardinality(CreateTicketTurns)

\* int(digits)
RECURSIVE str_to_int(_)
str_to_int(digits) ==
  IF digits = << >> THEN 0
  ELSE 10 * str_to_int(SubSeq(digits, 1, Len(digits) - 1))
         + (CHOOSE d \in 0..9 : DigitChars[d + 1] = Last(digits))

\* the number of a ticket ID
ticket_number(ticket_id) ==
  str_to_int(SubSeq(ticket_id, Len(TICKET_PREFIX) + 1, Len(ticket_id)))

\* C5: the k-th ticket of the store has the ID TICKET-(1000+k), so the IDs are
\* pairwise distinct and increase in creation order, and ticket_counter is
\* 1000 plus the number of tickets.
C5_SequentialIds ==
  /\ ticket_counter = 1000 + Len(support_tickets)
  /\ \A k \in 1..Len(support_tickets) :
       /\ SubSeq(support_tickets[k].key, 1, Len(TICKET_PREFIX)) = TICKET_PREFIX
       /\ ticket_number(support_tickets[k].key) = 1000 + k
       /\ Len(support_tickets[k].key) = Len(TICKET_PREFIX) + 4
  /\ \A j, k \in 1..Len(support_tickets) :
       j < k => support_tickets[j].key # support_tickets[k].key

\* C5 witness: two tickets issued
C5_Witness ==
  /\ Len(support_tickets) = 2
  /\ support_tickets[2].key = <<"T","I","C","K","E","T","-","1","0","0","2">>

StatusFormat == "Ticket {ticket_id} status: {status}. Created on {created_at}"

NotFoundFormat == "Ticket {ticket_id} not found. Please check the ticket number."

InvalidNumberMessage ==
  Message("Please provide a valid ticket number (e.g., TICKET-1001)", "", << >>)

\* a line that asks for the status of the ticket with the given ID, as a user
\* types it (in lower case)
status_question(ticket_id) == <<"s","t","a","t","u","s"," ","o","f"," ">> \o lower(ticket_id)

\* C6: in every state, asking get_response for the status of any ticket
\* issued so far finds it and reports the status Open; and no step removes
\* a stored ticket, moves it or changes one of its fields.
C6_IssuedTicketStaysOpen ==
  /\ [](\A k \in 1..Len(support_tickets) :
          get_response(status_question(support_tickets[k].key),
                       support_tickets, user_name)
            = { Message(StatusFormat, "",
                        << support_tickets[k].key, << "O", "p", "e", "n" >> >>) })
  /\ [][ \A k \in 1..Len(support_tickets) :
           /\ k <= Len(support_tickets')
           /\ support_tickets'[k] = support_tickets[k] ]_vars

\* C6 witness: the turn after the first ticket was created asked for its
\* status and got it
C6_Witness ==
  /\ Len(support_tickets) = 1
  /\ Len(conversation_history) = 5
  /\ user_input = status_question(support_tickets[1].key)
  /\ response = Message(StatusFormat, "",
                        << <<"T","I","C","K","E","T","-","1","0","0","1">>, << "O", "p", "e", "n" >> >>)

\* the text holds "TICKET-" followed by a digit, in any letter case
HasWellFormedId(text) ==
  \E i \in 1..Len(text) :
    /\ i + Len(TICKET_PREFIX) <= Len(text)
    /\ upper(SubSeq(text, i, i + Len(TICKET_PREFIX) - 1)) = TICKET_PREFIX
    /\ isdigit(text[i + Len(TICKET_PREFIX)])

\* the text names the ticket ID (in any letter case), not followed by a digit
NamesId(text, ticket_id) ==
  \E i \in 1..Len(text) :
    /\ i + Len(ticket_id) - 1 <= Len(text)
    /\ upper(SubSeq(text, i, i + Len(ticket_id) - 1)) = ticket_id
    /\ (i + Len(ticket_id) <= Len(text) => ~isdigit(text[i + Len(ticket_id)]))

\* a step of the loop that took the ticket-status path of get_response
StatusTurn ==
  /\ conversation_history' # conversation_history
  /\ is_ticket_inquiry(user_input')

\* C7: a ticket-status turn never changes the ticket store or the counter; a
\* line without a well-formed TICKET-<digits> ID gets the invalid-number
\* message, a line with a well-formed ID that names no issued ticket gets the
\* not-found message, and the two differ from every status report.
C7_LookupMiss ==
  [][ StatusTurn =>
        /\ UNCHANGED << support_tickets, ticket_counter >>
        /\ (~HasWellFormedId(user_input') => response' = InvalidNumberMessage)
        /\ ((/\ HasWellFormedId(user_input')
             /\ \A k \in 1..Len(support_tickets) :
                  ~NamesId(user_input', support_tickets[k].key))
              => /\ response'.fmt = NotFoundFormat
                 /\ Len(response'.args) = 1
                 /\ NamesId(user_input', response'.args[1])) ]_vars

\* C7 witness: after a line with no well-formed ID was answered, and with
\* TICKET-1001 issued, a lookup of TICKET-1002 was not found
C7_Witness ==
  /\ Len(support_tickets) = 1
  /\ \E i \in 1..Len(conversation_history) :
       /\ is_ticket_inquiry(conversation_history[i])
       /\ ~HasWellFormedId(conversation_history[i])
  /\ response = Message(NotFoundFormat, "", << <<"T","I","C","K","E","T","-","1","0","0","2">> >>)

\* C8: a step of the loop that processes a non-empty line (a call of
\* get_response) appends exactly that line to conversation_history, and no
\* other step (the name, an empty line, the reply to a ticket offer, an
\* interrupt) changes the history.
C8_OneEntryPerTurn ==
  [][ IF pc = "prompt" /\ pc' \in { "prompt", "offer" } /\ user_input' # << >>
      THEN conversation_history' = Append(conversation_history, user_input')
      ELSE conversation_history' = conversation_history ]_vars

\* C8 witness: four turns, the last one followed by an accepted ticket offer
C8_Witness ==
  /\ Len(conversation_history) = 4
  /\ Len(support_tickets) = 1
  /\ pc = "prompt"
  /\ Last(conversation_history) = user_input

\* the categories in the order of their declaration
CategoryOrder == << "account", "billing", "technical", "product" >>

\* the categories, by position, with a keyword that occurs in the lowered text
CategoryHits(text) ==
  { c \in 1..Len(support_knowledge) :
      \E keyword \in Range(support_knowledge[c].keywords) :
        contains(keyword, lower(text)) }

Min(S) == CHOOSE x \in S : \A y \in S : x <= y

\* the category the claim names for a text
FirstCategory(text) ==
  IF CategoryHits(text) = {} THEN "general"
  ELSE CategoryOrder[Min(CategoryHits(text))]

\* C9: classify_intent returns the first category, in the order account,
\* billing, technical, product, one of whose keywords occurs in the lowered
\* line, and "general" exactly when no keyword of any category occurs.
C9_FirstDeclaredCategory ==
  pc = "classify_intent" =>
    /\ response = FirstCategory(user_input)
    /\ (response = "general" <=> CategoryHits(user_input) = {})

\* C9 witness: a billing keyword before an account keyword classifies as
\* account
C9_Witness ==
  /\ pc = "classify_intent"
  /\ user_input = <<"r","e","f","u","n","d"," ","p","a","s","s","w","o","r","d">>
  /\ CategoryHits(user_input) = { 1, 2 }
  /\ response = "account"

\* the FAQs, by position, of the first category hit by the text one of whose
\* question words occurs in the lowered text
FaqHits(text) ==
  IF CategoryHits(text) = {} THEN {}
  ELSE LET faqs == support_knowledge[Min(CategoryHits(text))].faqs
       IN  { f \in 1..Len(faqs) :
               \E word \in Range(split(faqs[f].question)) :
                 contains(word, lower(text)) }

CategoryResponses ==
  UNION { choices("{0}", support_knowledge[c].responses) :
            c \in 1..Len(support_knowledge) }

\* C10: for a line that is no exit or help command, no ticket inquiry and no
\* escalation, if a word of some FAQ question of its category occurs in the
\* lowered line, get_response returns the answer of the first such FAQ of the
\* category, and no category response.
C10_FaqBeforeCategory ==
  ( /\ pc = "get_response"
    /\ lower(user_input) \notin exit_commands \cup help_commands
    /\ ~is_ticket_inquiry(user_input)
    /\ ~should_escalate(user_input)
    /\ FaqHits(user_input) # {} )
  => /\ response =
          Message("{0}",
                  support_knowledge[Min(CategoryHits(user_input))]
                    .faqs[Min(FaqHits(user_input))].answer,
                  << >>)
     /\ response \notin CategoryResponses

\* C10 witness: scenario C
C10_Witness ==
  /\ pc = "get_response"
  /\ user_input = <<"I"," ","f","o","r","g","o","t"," ","m","y"," ","p","a","s","s","w","o","r","d">>
  /\ classify_intent(user_input) = "account"
  /\ response = Message("{0}", support_knowledge[1].faqs[1].answer, << >>)

\* the rules whose pattern matches at the start of the text
MatchingRules(text) ==
  { r \in 1..Len(patterns) : match_rule(patterns[r], text).matched }

\* the lines a rule can print for a text: its templates filled with the
\* reflected groups
Answers(r, text) ==
  { format(patterns[r].responses[n],
           reflected_groups(match_rule(patterns[r], text).groups)) :
      n \in 1..Len(patterns[r].responses) }

\* an iteration of eliza_chat that was not a loop-level exit has just ended
AfterElizaTurn == pc = "prompt" /\ response # eliza_greeting

\* C11: in eliza_chat every line that is not a loop-level exit token, the
\* empty line included, gets a non-empty response: the catch-all rule, the
\* last of the table, matches the line, so the scan never runs off the table.
C11_OneNonEmptyResponse ==
  AfterElizaTurn =>
    /\ lower(user_input) \notin eliza_exit_commands
    /\ response # << >>
    /\ match_rule(patterns[Len(patterns)], user_input).matched
    /\ first_match(user_input, 1) \in 1..Len(patterns)

C11_Witness ==
  /\ pc = "prompt"
  /\ user_input = << >>
  /\ response = << "." >>

\* C12: in eliza_chat the response to a line is one of the templates of the
\* lowest-index rule whose pattern matches the line, filled with its reflected
\* groups, also when later rules match; "I am sad" is answered by one of the
\* three templates of the rule "I am (.*)" filled with "sad".
C12_LowestIndexRuleAnswers ==
  AfterElizaTurn =>
    /\ response \in Answers(Min(MatchingRules(user_input)), user_input)
    /\ user_input = <<"I"," ","a","m"," ","s","a","d">> =>
         response \in { <<"D","i","d"," ","y","o","u"," ","c","o","m","e"," ","t","o"," ","m","e"," ","b","e","c","a","u","s","e"," ","y","o","u"," ","a","r","e"," ","s","a","d","?">>,
                        <<"H","o","w"," ","l","o","n","g"," ","h","a","v","e"," ","y","o","u"," ","b","e","e","n"," ","s","a","d","?">>,
                        <<"H","o","w"," ","d","o"," ","y","o","u"," ","f","e","e","l"," ","a","b","o","u","t"," ","b","e","i","n","g"," ","s","a","d","?">> }

C12_Witness ==
  /\ pc = "prompt"
  /\ user_input = <<"I"," ","a","m"," ","s","a","d">>
  /\ Cardinality(MatchingRules(user_input)) > 1
  /\ response = <<"H","o","w"," ","l","o","n","g"," ","h","a","v","e"," ","y","o","u"," ","b","e","e","n"," ","s","a","d","?">>

\* C13: in eliza_chat, whenever the rule that answers a line is the Quit rule,
\* the conversation ends: the loop is not back at its prompt.
C13_QuitRuleTerminates ==
  (pc = "prompt" /\ response \in Answers(quit_rule, user_input)) =>
    Min(MatchingRules(user_input)) # quit_rule

\* C14: a failure of the input read never lets an exception leave the
\* conversation loop: the conversation ends in its terminated state.
C14_ReadFailureTerminates ==
  pc # "crashed"

\* the Reflection Map entry of a token, the token itself when it has none
image(token) ==
  IF \E i \in 1..Len(reflections) : reflections[i].key = token
  THEN (CHOOSE e \in Range(reflections) : e.key = token).value
  ELSE token

\* the words of the images of a sequence of tokens, in order
RECURSIVE image_words(_)
image_words(tokens) ==
  IF tokens = << >> THEN << >>
  ELSE split(image(Head(tokens))) \o image_words(Tail(tokens))

\* the text has no tab, no space at either end and no two spaces in a row
SingleSpaced(text) ==
  \A i \in 1..Len(text) :
    text[i] \in Whitespace =>
      /\ text[i] = " "
      /\ 1 < i /\ i < Len(text)
      /\ text[i + 1] \notin Whitespace

\* the tokens whose Reflection Map entry holds a capital letter
capital_image_tokens == { <<"y","o","u","'","v","e">>, <<"y","o","u","'","l","l">> }

\* C15 as stated: reflect(fragment) is the single-space join of the images of
\* the lowercased tokens of the fragment, the result is entirely lowercase,
\* and an empty fragment yields the empty string.
C15_ReflectAllLowercase ==
  pc = "reflect" =>
    /\ split(response) = image_words(split(lower(user_input)))
    /\ SingleSpaced(response)
    /\ response = lower(response)
    /\ user_input = << >> => response = << >>

\* C15, amended: reflect(fragment) is the single-space join of the images of
\* the lowercased tokens of the fragment; the result is lowercase except for
\* the capital "I" that the entries you've -> "I have" and you'll -> "I will"
\* put at the start of a word, and a fragment without tokens yields the empty
\* string.
C15_ReflectJoinsImages ==
  pc = "reflect" =>
    /\ split(response) = image_words(split(lower(user_input)))
    /\ SingleSpaced(response)
    /\ \A i \in 1..Len(response) :
         response[i] # lower_char(response[i]) =>
           /\ response[i] = "I"
           /\ i = 1 \/ response[i - 1] = " "
           /\ i < Len(response) /\ response[i + 1] = " "
           /\ \E token \in Range(split(lower(user_input))) :
                token \in capital_image_tokens
    /\ split(user_input) = << >> => response = << >>

C15_Witness ==
  /\ pc = "reflect"
  /\ user_input = <<"Y","o","u","'","v","e"," ","m","y"," ","C","a","r">>
  /\ response = <<"I"," ","h","a","v","e"," ","y","o","u","r"," ","c","a","r">>

\* the offers that a history of n entries allows: none for the first three
OffersAllowed(n) == IF n > 3 THEN n - 3 ELSE 0

====
